---- MODULE Spec2Model ----
(***************************************************************************)
(* A model of the HTree of src/src/lib.rs: a tree of hierarchical H3 cells *)
(* with two recursive operations, insert and contains.                     *)
(*                                                                         *)
(* A cell is the sequence <<base cell, digit 1, ..., digit r>>; its        *)
(* resolution is r.  A Rust panic (a failed assert!, an unwrap of an Err)  *)
(* ends the call: the operation's outcome names the panicking line and no  *)
(* further call is made on the tree.                                       *)
(***************************************************************************)
EXTENDS Integers, Sequences, FiniteSets

VARIABLES root_res, nodes, inserted, op

vars == <<root_res, nodes, inserted, op>>

\* Bounds of the model (H3 itself has 122 base cells, 7 children per cell and
\* resolutions 0..15).
MaxRes == 2
NumBase == 2
Fanout == 2
MaxInserts == 3

----------------------------------------------------------------------------
\* The grid: H3Cell and the operations the tree calls on it.

Digits == 0 .. (Fanout - 1)

CellsAt(r) ==
    { c \in [1 .. (r + 1) -> 0 .. ((IF NumBase > Fanout THEN NumBase ELSE Fanout) - 1)] :
        /\ c[1] \in 0 .. (NumBase - 1)
        /\ \A i \in 2 .. (r + 1) : c[i] \in Digits }

Cells == UNION { CellsAt(r) : r \in 0 .. MaxRes }

resolution(hex) == Len(hex) - 1

\* The unused digits of an H3 index hold the largest digit value, one more
\* than any child digit.
Radix == Fanout + 1

RECURSIVE Pow(_, _)
Pow(b, n) == IF n = 0 THEN 1 ELSE b * Pow(b, n - 1)

\* The integer an H3Cell is ordered and compared by: resolution in the high
\* bits, then the base cell, then the digits, coarsest first, padded with the
\* unused digit.
RECURSIVE DigitsValue(_, _)
DigitsValue(hex, i) ==
    IF i > MaxRes + 2 THEN 0
    ELSE (IF i <= Len(hex) THEN hex[i] ELSE Fanout) * Pow(Radix, MaxRes + 2 - i)
         + DigitsValue(hex, i + 1)

h3index(hex) ==
    resolution(hex) * (NumBase * Pow(Radix, MaxRes + 1))
    + hex[1] * Pow(Radix, MaxRes + 1)
    + DigitsValue(hex, 2)

\* H3Cell::get_parent: Ok(the ancestor) for a resolution in range and not
\* finer than the cell's own, Err otherwise.
get_parent(hex, res) ==
    IF res >= 0 /\ res <= MaxRes /\ res <= resolution(hex)
    THEN [ok |-> TRUE, v |-> SubSeq(hex, 1, res + 1)]
    ELSE [ok |-> FALSE, v |-> hex]

\* H3Cell::is_parent_of: self is the other cell's ancestor at self's
\* resolution (a cell is a parent of itself).
is_parent_of(self, hex) ==
    /\ resolution(self) <= resolution(hex)
    /\ SubSeq(hex, 1, Len(self)) = self

----------------------------------------------------------------------------
\* Option<Vec<Node>> and Node.

None == [some |-> FALSE, v |-> <<>>]

Some(s) == [some |-> TRUE, v |-> s]

\* Mutant of Node_new: the children are an empty array, not absent.
Node_new_empty(hex) == [hex |-> hex, children |-> Some(<<>>)]

\* Node::new.
Node_new(hex) == [hex |-> hex, children |-> None]

\* slice::binary_search_by_key over the nodes' hex: Ok(pos) or Err(pos), pos
\* counted from 0.
RECURSIVE bsearch(_, _, _, _)
bsearch(s, key, left, right) ==
    IF left >= right THEN [found |-> FALSE, pos |-> left]
    ELSE LET mid == left + ((right - left) \div 2)
             k == h3index(s[mid + 1].hex)
         IN  IF k < key THEN bsearch(s, key, mid + 1, right)
             ELSE IF k > key THEN bsearch(s, key, left, mid)
             ELSE [found |-> TRUE, pos |-> mid]

\* Mutant of binary_search_by_key: a key that is missing is reported found at
\* the place it would go, when a node is there.
binary_search_by_key_nearest(s, hex) ==
    LET r == bsearch(s, h3index(hex), 0, Len(s))
    IN  IF ~r.found /\ r.pos < Len(s) THEN [found |-> TRUE, pos |-> r.pos] ELSE r

binary_search_by_key(s, hex) == bsearch(s, h3index(hex), 0, Len(s))

\* Mutant of vec_insert: the node is pushed at the end, whatever pos is.
vec_insert_push(s, pos, node) == Append(s, node)

\* Mutant of vec_insert: the node takes the place of the one at pos.
vec_insert_overwrite(s, pos, node) ==
    IF pos < Len(s) THEN [s EXCEPT ![pos + 1] = node] ELSE Append(s, node)

\* Mutant of vec_insert: the node is not stored.
vec_insert_lost(s, pos, node) == s

\* Vec::insert(pos, node), pos counted from 0.
vec_insert(s, pos, node) ==
    SubSeq(s, 1, pos) \o <<node>> \o SubSeq(s, pos + 1, Len(s))

\* Mutant of Node_promoted: the cell is not promoted to the children's
\* resolution.
Node_promoted_asis(self, hex) == [ok |-> TRUE, v |-> hex]

\* Mutant of Node_promoted: a cell no finer than the children is taken as it
\* is, so the Node's own hex is promoted without an ancestor computation.
Node_promoted_lenient(self, hex) ==
    IF resolution(hex) <= resolution(self.hex) + 1
    THEN [ok |-> TRUE, v |-> hex]
    ELSE get_parent(hex, resolution(self.hex) + 1)

\* The promoted cell of Node::insert, lines 34-38: an Err is unwrapped.
Node_promoted(self, hex) ==
    IF resolution(hex) = resolution(self.hex) + 1
    THEN [ok |-> TRUE, v |-> hex]
    ELSE get_parent(hex, resolution(self.hex) + 1)

\* Mutant of Node_insert_at_unwrap: the children are dropped before the
\* promoted cell is computed.
Node_insert_at_unwrap_coalesced(self, hex) ==
    IF self.hex = hex THEN [self EXCEPT !.children = None] ELSE self

\* The Node when the unwrap of line 37 panics: lines 32-38 assign nothing.
Node_insert_at_unwrap(self, hex) == self

\* Node::insert.  The result is the outcome and the node afterwards.  The
\* node is changed in place: when the call on a child panics, the node holds
\* the child as the panic left it; a new Node that panics while it is still
\* a local is dropped.
RECURSIVE Node_insert(_, _)
Node_insert(self, hex) ==
    IF ~(resolution(hex) > resolution(self.hex) \/ hex = self.hex)
    THEN [st |-> "assert_32", node |-> self]
    ELSE
    LET p == Node_promoted(self, hex) IN
    IF ~p.ok
    THEN [st |-> "unwrap_37", node |-> Node_insert_at_unwrap(self, hex)]
    ELSE
    LET promoted == p.v
        fresh == IF promoted # hex
                 THEN Node_insert(Node_new(promoted), hex)
                 ELSE [st |-> "ok", node |-> Node_new(promoted)]
    IN
    IF self.hex = hex
    THEN [st |-> "ok", node |-> [self EXCEPT !.children = None]]
    ELSE IF self.children.some
    THEN LET children == self.children.v
             bs == binary_search_by_key(children, promoted)
         IN  IF bs.found
             THEN LET r == Node_insert(children[bs.pos + 1], hex)
                  IN  [st |-> r.st,
                       node |-> [self EXCEPT !.children =
                                   Some([children EXCEPT ![bs.pos + 1] = r.node])]]
             ELSE IF fresh.st = "ok"
                  THEN [st |-> "ok",
                        node |-> [self EXCEPT !.children =
                                    Some(vec_insert(children, bs.pos, fresh.node))]]
                  ELSE [st |-> fresh.st, node |-> self]
    ELSE IF fresh.st = "ok"
         THEN [st |-> "ok", node |-> [self EXCEPT !.children = Some(<<fresh.node>>)]]
         ELSE [st |-> fresh.st, node |-> self]

\* Mutant of Node_contains_assert: the assertion is gone.
Node_contains_assert_off(self, hex) == TRUE

\* The first assertion of Node::contains, line 69.
Node_contains_assert(self, hex) == hex # self.hex \/ ~self.children.some

\* Mutant of Node_contains: a Node that is a parent of the cell contains it,
\* the children are not searched.
Node_contains_shallow(self, hex) ==
    [st |-> "ok", ret |-> is_parent_of(self.hex, hex)]

\* Node::contains: the outcome and the returned boolean.
RECURSIVE Node_contains(_, _)
Node_contains(self, hex) ==
    IF ~Node_contains_assert(self, hex)
    THEN [st |-> "assert_69", ret |-> FALSE]
    ELSE IF ~(resolution(hex) >= resolution(self.hex))
    THEN [st |-> "assert_70", ret |-> FALSE]
    ELSE IF ~is_parent_of(self.hex, hex)
    THEN [st |-> "ok", ret |-> FALSE]
    ELSE IF ~self.children.some
    THEN [st |-> "ok", ret |-> TRUE]
    ELSE
    LET p == get_parent(hex, resolution(self.hex) + 1) IN
    IF ~p.ok
    THEN [st |-> "unwrap_84", ret |-> FALSE]
    ELSE LET bs == binary_search_by_key(self.children.v, p.v)
         IN  IF bs.found
             THEN Node_contains(self.children.v[bs.pos + 1], hex)
             ELSE [st |-> "ok", ret |-> FALSE]

----------------------------------------------------------------------------
\* HTree.

\* Mutant of HTree_promoted: the cell is promoted to the coarsest resolution
\* of the grid, not to the tree's.
HTree_promoted_coarsest(res, hex) ==
    IF resolution(hex) = 0
    THEN [ok |-> TRUE, v |-> hex]
    ELSE get_parent(hex, 0)

\* The promoted cell of HTree::insert, lines 109-113.
HTree_promoted(res, hex) ==
    IF resolution(hex) = res
    THEN [ok |-> TRUE, v |-> hex]
    ELSE get_parent(hex, res)

\* Mutant of HTree_insert_assert: the assertion is gone.
HTree_insert_assert_off(res, hex) == TRUE

\* The assertion of HTree::insert, line 108.
HTree_insert_assert(res, hex) == resolution(hex) >= res

\* HTree::insert on the tree (res, ns): the outcome and the root nodes
\* afterwards, which a panicking call on a root node leaves as the panic
\* left that node.
HTree_insert(res, ns, hex) ==
    IF ~HTree_insert_assert(res, hex)
    THEN [st |-> "assert_108", nodes |-> ns]
    ELSE
    LET p == HTree_promoted(res, hex) IN
    IF ~p.ok
    THEN [st |-> "unwrap_112", nodes |-> ns]
    ELSE
    LET promoted == p.v
        bs == binary_search_by_key(ns, promoted)
    IN
    IF bs.found
    THEN LET r == Node_insert(ns[bs.pos + 1], hex)
         IN  [st |-> r.st, nodes |-> [ns EXCEPT ![bs.pos + 1] = r.node]]
    ELSE LET r == IF resolution(hex) > res
                  THEN Node_insert(Node_new(promoted), hex)
                  ELSE [st |-> "ok", node |-> Node_new(promoted)]
         IN  IF r.st = "ok"
             THEN [st |-> "ok", nodes |-> vec_insert(ns, bs.pos, r.node)]
             ELSE [st |-> r.st, nodes |-> ns]

\* HTree::contains on the tree (res, ns): the outcome and the returned boolean.
HTree_contains(res, ns, hex) ==
    IF ~(resolution(hex) >= res)
    THEN [st |-> "assert_129", ret |-> FALSE]
    ELSE
    LET p == get_parent(hex, res) IN
    IF ~p.ok
    THEN [st |-> "unwrap_130", ret |-> FALSE]
    ELSE LET bs == binary_search_by_key(ns, p.v)
         IN  IF bs.found
             THEN Node_contains(ns[bs.pos + 1], hex)
             ELSE [st |-> "ok", ret |-> FALSE]

----------------------------------------------------------------------------
\* The depth of the recursion: how many calls of a Node on a Node are nested
\* inside one call, following the branches the call takes.

\* Node::insert: the call on the child found (line 46) or on the new Node
\* (lines 50, 58), and the calls nested in it.
RECURSIVE Node_insert_depth(_, _)
Node_insert_depth(self, hex) ==
    IF ~(resolution(hex) > resolution(self.hex) \/ hex = self.hex) THEN 0
    ELSE
    LET p == Node_promoted(self, hex) IN
    IF ~p.ok THEN 0
    ELSE IF self.hex = hex THEN 0
    ELSE
    LET bs == binary_search_by_key(self.children.v, p.v) IN
    IF self.children.some /\ bs.found
    THEN 1 + Node_insert_depth(self.children.v[bs.pos + 1], hex)
    ELSE IF p.v # hex
    THEN 1 + Node_insert_depth(Node_new(p.v), hex)
    ELSE 0

\* Node::contains: the call on the child found (line 91) and the calls nested
\* in it.
RECURSIVE Node_contains_depth(_, _)
Node_contains_depth(self, hex) ==
    IF ~Node_contains_assert(self, hex) THEN 0
    ELSE IF ~(resolution(hex) >= resolution(self.hex)) THEN 0
    ELSE IF ~is_parent_of(self.hex, hex) THEN 0
    ELSE IF ~self.children.some THEN 0
    ELSE
    LET p == get_parent(hex, resolution(self.hex) + 1) IN
    IF ~p.ok THEN 0
    ELSE LET bs == binary_search_by_key(self.children.v, p.v)
         IN  IF bs.found
             THEN 1 + Node_contains_depth(self.children.v[bs.pos + 1], hex)
             ELSE 0

\* HTree::insert: the calls nested in its call of Node::insert (lines 116,
\* 121).
HTree_insert_depth(res, ns, hex) ==
    IF ~HTree_insert_assert(res, hex) THEN 0
    ELSE
    LET p == HTree_promoted(res, hex) IN
    IF ~p.ok THEN 0
    ELSE LET bs == binary_search_by_key(ns, p.v)
         IN  IF bs.found THEN Node_insert_depth(ns[bs.pos + 1], hex)
             ELSE IF resolution(hex) > res THEN Node_insert_depth(Node_new(p.v), hex)
             ELSE 0

\* HTree::contains: the calls nested in its call of Node::contains (line 132).
HTree_contains_depth(res, ns, hex) ==
    IF ~(resolution(hex) >= res) THEN 0
    ELSE
    LET p == get_parent(hex, res) IN
    IF ~p.ok THEN 0
    ELSE LET bs == binary_search_by_key(ns, p.v)
         IN  IF bs.found THEN Node_contains_depth(ns[bs.pos + 1], hex) ELSE 0

----------------------------------------------------------------------------
\* The state machine: a tree made by HTree::new, then calls of insert and
\* contains until one panics.

\* HTree::new(root_res), for any root resolution.
Init ==
    /\ root_res \in 0 .. MaxRes
    /\ nodes = <<>>
    /\ inserted = {}
    /\ op = [kind |-> "new", hex |-> <<>>, st |-> "ok", ret |-> FALSE, depth |-> 0]

\* A call tree.insert(hex).
Insert(hex) ==
    /\ op.st = "ok"
    /\ Cardinality(inserted) < MaxInserts
    /\ LET r == HTree_insert(root_res, nodes, hex)
       IN  /\ nodes' = r.nodes
           /\ inserted' = IF r.st = "ok" THEN inserted \cup {hex} ELSE inserted
           /\ op' = [kind |-> "insert", hex |-> hex, st |-> r.st, ret |-> FALSE,
                    depth |-> HTree_insert_depth(root_res, nodes, hex)]
    /\ UNCHANGED root_res

\* Mutant of Contains: a query that finds nothing records the cell.
Contains_recording(hex) ==
    /\ op.st = "ok"
    /\ LET r == HTree_contains(root_res, nodes, hex)
       IN  /\ op' = [kind |-> "contains", hex |-> hex, st |-> r.st, ret |-> r.ret,
                    depth |-> HTree_contains_depth(root_res, nodes, hex)]
           /\ nodes' = IF r.st = "ok" /\ ~r.ret
                       THEN HTree_insert(root_res, nodes, hex).nodes
                       ELSE nodes
    /\ UNCHANGED <<root_res, inserted>>

\* A call tree.contains(hex): contains takes &self and assigns nothing.
Contains(hex) ==
    /\ op.st = "ok"
    /\ LET r == HTree_contains(root_res, nodes, hex)
       IN  op' = [kind |-> "contains", hex |-> hex, st |-> r.st, ret |-> r.ret,
                  depth |-> HTree_contains_depth(root_res, nodes, hex)]
    /\ UNCHANGED <<root_res, nodes, inserted>>

Next ==
    \/ \E hex \in Cells : Insert(hex)
    \/ \E hex \in Cells : Contains(hex)

Spec == Init /\ [][Next]_vars

----------------------------------------------------------------------------
\* The test's helpers, lines 162-187.

\* from_array: a tree of resolution res with the cells of the sequence
\* inserted in turn; the build ends at the first insert that panics.
RECURSIVE from_array_from(_, _, _, _)
from_array_from(res, ns, cells, i) ==
    IF i > Len(cells) THEN [st |-> "ok", nodes |-> ns]
    ELSE LET r == HTree_insert(res, ns, cells[i])
         IN  IF r.st = "ok"
             THEN from_array_from(res, r.nodes, cells, i + 1)
             ELSE r

from_array(cells, res) == from_array_from(res, <<>>, cells, 1)

\* naive_contains: some cell of the region is the target, or the target's
\* parent at that cell's resolution.
naive_contains(region, target) ==
    \E cell \in region :
        cell = (IF resolution(cell) < resolution(target)
                THEN get_parent(target, resolution(cell)).v
                ELSE target)

----------------------------------------------------------------------------
\* Vocabulary of the properties.

Panics == {"assert_32", "unwrap_37", "assert_69", "assert_70", "unwrap_84",
           "assert_108", "unwrap_112", "assert_129", "unwrap_130"}

True == [st |-> "ok", ret |-> TRUE]

False == [st |-> "ok", ret |-> FALSE]

\* What tree.contains(hex) gives on the current tree.
Query(hex) == HTree_contains(root_res, nodes, hex)

RECURSIVE SubNodes(_)
SubNodes(n) ==
    {n} \cup (IF n.children.some
              THEN UNION { SubNodes(n.children.v[i]) : i \in DOMAIN n.children.v }
              ELSE {})

\* Every Node of the tree with root nodes ns.
AllNodes(ns) == UNION { SubNodes(ns[i]) : i \in DOMAIN ns }

\* The tree has a Node for hex that has children.
Refined(ns, hex) == \E n \in AllNodes(ns) : n.hex = hex /\ n.children.some

\* The tree has a Node for hex that has no children.
Leaf(ns, hex) == \E n \in AllNodes(ns) : n.hex = hex /\ ~n.children.some

\* Neither cell is the other or an ancestor of the other.
Unrelated(a, b) == ~is_parent_of(a, b) /\ ~is_parent_of(b, a)

\* The orders in which the cells of a set can be inserted.
Orders(S) ==
    { f \in [1 .. Cardinality(S) -> S] : \A i, j \in DOMAIN f : f[i] = f[j] => i = j }

SortedVec(s) ==
    \A i \in 1 .. (Len(s) - 1) : h3index(s[i].hex) < h3index(s[i + 1].hex)

----------------------------------------------------------------------------
\* C1 (as claimed): every cell that is one of the inserted cells, or a
\* descendant of one, is contained: contains returns true for it.
C1_Coverage ==
    \A s \in inserted : \A c \in Cells :
        is_parent_of(s, c) => Query(c) = True

\* C2 (as claimed): every order of inserting the inserted set builds a tree,
\* and the tree answers every query of resolution >= root_res as this one does.
C2_OrderIndependence ==
    \A f \in Orders(inserted) :
        LET t == from_array(f, root_res)
        IN  /\ t.st = "ok"
            /\ \A c \in Cells :
                 resolution(c) >= root_res
                     => HTree_contains(root_res, t.nodes, c) = Query(c)

\* C3: a query cell of resolution >= root_res that is neither one of the
\* inserted cells, nor an ancestor, nor a descendant of one, is not contained:
\* contains returns false for it.
C3_NegativeCoverage ==
    \A c \in Cells :
        (resolution(c) >= root_res /\ \A s \in inserted : Unrelated(s, c))
            => Query(c) = False

\* C3's case: contains was called with a cell unrelated to every inserted
\* cell whose root node is in the tree, and it returned.
C3_Witness ==
    /\ op.kind = "contains"
    /\ resolution(op.hex) >= root_res
    /\ inserted # {}
    /\ \A s \in inserted : Unrelated(s, op.hex)
    /\ \E s \in inserted : get_parent(s, root_res) = get_parent(op.hex, root_res)
    /\ op.st = "ok" /\ op.ret = FALSE

\* C4 (as claimed): with root_res the coarsest resolution of the inserted
\* cells, contains returns for every target of resolution >= root_res the
\* boolean naive_contains gives for the inserted cells.
C4_AgreesWithNaive ==
    (/\ inserted # {}
     /\ \A s \in inserted : root_res <= resolution(s)
     /\ \E t \in inserted : root_res = resolution(t))
        => \A target \in Cells :
             resolution(target) >= root_res
                 => Query(target) = [st |-> "ok", ret |-> naive_contains(inserted, target)]

\* C5 (as claimed): an insert of a cell that is the hex of a Node with
\* children completes, leaves that Node without children, and afterwards
\* every cell under that hex is contained.
C5_Coalescing ==
    [][ (op'.kind = "insert" /\ Refined(nodes, op'.hex))
            => /\ op'.st = "ok"
               /\ Leaf(nodes', op'.hex)
               /\ \A d \in Cells :
                    is_parent_of(op'.hex, d)
                        => HTree_contains(root_res, nodes', d) = True ]_vars

\* C6 (as claimed): a second insert of the cell just inserted completes and
\* leaves the answer to every query as it was after the first.
C6_Idempotence ==
    [][ (op.kind = "insert" /\ op.st = "ok" /\ op'.kind = "insert" /\ op'.hex = op.hex)
            => /\ op'.st = "ok"
               /\ \A c \in Cells :
                    HTree_contains(root_res, nodes', c) = Query(c) ]_vars

\* C7: the root nodes and every present children array are strictly
\* increasing by hex.
C7_Sortedness ==
    /\ SortedVec(nodes)
    /\ \A n \in AllNodes(nodes) : n.children.some => SortedVec(n.children.v)

\* C7's case: inserts have made a second root node and a second child in
\* some children array.
C7_Witness ==
    /\ op.kind = "insert" /\ op.st = "ok"
    /\ Len(nodes) >= 2
    /\ \E n \in AllNodes(nodes) : n.children.some /\ Len(n.children.v) >= 2

\* C8: every root Node is of resolution root_res and every child Node of its
\* parent's resolution + 1.
C8_Levels ==
    /\ \A i \in DOMAIN nodes : resolution(nodes[i].hex) = root_res
    /\ \A n \in AllNodes(nodes) :
         n.children.some
             => \A j \in DOMAIN n.children.v :
                  resolution(n.children.v[j].hex) = resolution(n.hex) + 1

\* C8's case: an insert of a cell two resolutions finer than the root made
\* a chain of Nodes down to it.
C8_Witness ==
    /\ op.kind = "insert" /\ op.st = "ok"
    /\ resolution(op.hex) >= root_res + 2
    /\ \E n \in AllNodes(nodes) : n.hex = op.hex

\* The last call was an insert or a contains of a cell coarser than root_res.
TooCoarseCall ==
    /\ op.kind \in {"insert", "contains"}
    /\ resolution(op.hex) < root_res

\* C9 (as claimed): an insert or contains of a cell coarser than root_res
\* gives the caller an error value: it does not panic.
C9_RecoverableError == TooCoarseCall => op.st \notin Panics

\* C9 (amended): an insert or contains of a cell coarser than root_res panics
\* on the assertion that opens the call, line 108 or line 129.
C9_AssertionPanic ==
    TooCoarseCall
        => op.st = (IF op.kind = "insert" THEN "assert_108" ELSE "assert_129")

\* C9's case: a cell coarser than root_res was inserted into a tree that
\* holds cells.
C9_Witness ==
    /\ TooCoarseCall
    /\ op.kind = "insert"
    /\ inserted # {}
    /\ op.st = "assert_108"

\* The last call was a contains of the hex of a Node that has children.
RefinedNodeQueried ==
    /\ op.kind = "contains"
    /\ Refined(nodes, op.hex)

\* C10 (as claimed): a contains of the hex of a Node that has children gives
\* an error outcome: it does not fail an assertion.
C10_ErrorOutcome == RefinedNodeQueried => op.st \notin Panics

\* C10 (amended): a contains of the hex of a Node that has children fails the
\* first assertion of Node::contains, line 69.
C10_AssertionFailure == RefinedNodeQueried => op.st = "assert_69"

\* C10's case: the Node queried is a child Node, reached by recursion.
C10_Witness ==
    /\ RefinedNodeQueried
    /\ resolution(op.hex) > root_res
    /\ op.st = "assert_69"

\* C11: an insert that fails (a failed assertion or a failed ancestor
\* computation, at any depth) leaves root_res and the root nodes, with all
\* their descendants, as they were before the call.
C11_NoPartialMutation ==
    [][ (op'.kind = "insert" /\ op'.st # "ok")
            => (nodes' = nodes /\ root_res' = root_res) ]_vars

\* C11's case: an insert failed in a Node below the root, one that has
\* children.
C11_Witness ==
    /\ op.kind = "insert"
    /\ op.st = "unwrap_37"
    /\ resolution(op.hex) > root_res
    /\ Refined(nodes, op.hex)

\* C12: a contains call, whether it returns true, returns false or fails,
\* leaves root_res and the root nodes, with all their descendants, unchanged.
C12_QueriesReadOnly ==
    [][ op'.kind = "contains" => (nodes' = nodes /\ root_res' = root_res) ]_vars

\* C12's case: contains walked down a tree with children and returned.
C12_Witness ==
    /\ op.kind = "contains"
    /\ op.st = "ok"
    /\ resolution(op.hex) > root_res
    /\ \E n \in AllNodes(nodes) : n.children.some /\ is_parent_of(n.hex, op.hex)

\* The Nodes of the subtree of n, each as the hexes from n down to it.
RECURSIVE SubPaths(_)
SubPaths(n) ==
    {<<n.hex>>} \cup
    (IF n.children.some
     THEN UNION { { <<n.hex>> \o q : q \in SubPaths(n.children.v[i]) } :
                  i \in DOMAIN n.children.v }
     ELSE {})

\* The Nodes of the tree, each as the hexes from its root node down to it.
Paths(ns) == UNION { SubPaths(ns[i]) : i \in DOMAIN ns }

C14_BoundedDepth ==
    (op.kind \in {"insert", "contains"} /\ resolution(op.hex) >= root_res)
        => op.depth <= MaxRes - root_res

\* C14's case: a call walked from a root node of the coarsest resolution down
\* to a Node of the finest.
C14_Witness ==
    /\ op.kind \in {"insert", "contains"}
    /\ root_res = 0
    /\ resolution(op.hex) = MaxRes
    /\ op.depth = MaxRes

\* The outcomes of an ancestor computation asked for outside its domain: the
\* unwrap of get_parent's Err.
AncestorFailures == {"unwrap_37", "unwrap_84", "unwrap_112", "unwrap_130"}

\* C15 (as claimed): no insert or contains of a cell of resolution >=
\* root_res asks for an ancestor at a resolution finer than the cell's own;
\* an insert of a Node's own hex coalesces without one, so no insert of such
\* a cell aborts.
C15_AncestorInDomain ==
    (op.kind \in {"insert", "contains"} /\ resolution(op.hex) >= root_res)
        => /\ op.st \notin AncestorFailures
           /\ op.kind = "insert" => op.st = "ok"

\* C16 (as claimed): a cell that is contained stays contained after any
\* further insert that completes.
C16_ContainmentMonotone ==
    [][ (op'.kind = "insert" /\ op'.st = "ok")
            => \A c \in Cells :
                 Query(c) = True => HTree_contains(root_res, nodes', c) = True ]_vars

\* The tree holds, from the Node ns[i] on, one Node for hex's ancestor at
\* each resolution from res up to hex's own, each the child of the one before,
\* the last without children.
RECURSIVE HasPath(_, _, _)
HasPath(ns, hex, res) ==
    \E i \in DOMAIN ns :
        /\ get_parent(hex, res) = [ok |-> TRUE, v |-> ns[i].hex]
        /\ IF res = resolution(hex)
           THEN ~ns[i].children.some
           ELSE ns[i].children.some /\ HasPath(ns[i].children.v, hex, res + 1)

\* C17: after an insert of a cell c of resolution >= root_res that completes,
\* the tree holds a chain of Nodes from a root node down to a Node with hex c,
\* one for c's ancestor at each resolution, the last without children, and
\* contains(c) is true.
C17_InsertPostcondition ==
    (op.kind = "insert" /\ op.st = "ok")
        => /\ resolution(op.hex) >= root_res
           /\ HasPath(nodes, op.hex, root_res)
           /\ Query(op.hex) = True

\* C17's case: the insert made the last Nodes of the chain below Nodes that
\* were there already.
C17_Witness ==
    /\ op.kind = "insert"
    /\ op.st = "ok"
    /\ resolution(op.hex) = root_res + 2
    /\ \E s \in inserted :
         /\ s # op.hex
         /\ resolution(s) > root_res
         /\ get_parent(s, root_res) = get_parent(op.hex, root_res)

\* C18: every child Node's hex has its parent Node's hex as its ancestor at
\* the parent's resolution, so every Node's hex is a descendant of the hex of
\* the root node it sits under.
C18_Ancestry ==
    /\ \A n \in AllNodes(nodes) :
         n.children.some
             => \A j \in DOMAIN n.children.v :
                  get_parent(n.children.v[j].hex, resolution(n.hex))
                      = [ok |-> TRUE, v |-> n.hex]
    /\ \A i \in DOMAIN nodes :
         \A n \in SubNodes(nodes[i]) : is_parent_of(nodes[i].hex, n.hex)

\* C18's case: a root node has a grandchild, and there is another root node
\* beside it.
C18_Witness ==
    /\ op.kind = "insert" /\ op.st = "ok"
    /\ Len(nodes) >= 2
    /\ \E i \in DOMAIN nodes :
         \E n \in SubNodes(nodes[i]) : resolution(n.hex) = root_res + 2

\* C19: a Node's children are absent or a non-empty array, so a Node that
\* contains nothing of a cell it is a parent of has searched a non-empty
\* array.
C19_NoEmptyChildren ==
    \A n \in AllNodes(nodes) : n.children.some => Len(n.children.v) >= 1

\* C19's case: after an insert the tree has a Node with children and a Node
\* without.
C19_Witness ==
    /\ op.kind = "insert" /\ op.st = "ok"
    /\ \E n \in AllNodes(nodes) : n.children.some
    /\ \E n \in AllNodes(nodes) : ~n.children.some

\* C20: an insert never changes root_res and leaves every root node whose hex
\* is not the cell's ancestor at root_res as it was, with its whole subtree;
\* contains is unchanged for every cell whose ancestor at root_res differs
\* from the inserted cell's.
C20_InsertFrame ==
    [][ op'.kind = "insert"
            => LET promoted == get_parent(op'.hex, root_res)
               IN  /\ root_res' = root_res
                   /\ \A i \in DOMAIN nodes :
                        (~promoted.ok \/ nodes[i].hex # promoted.v)
                            => \E j \in DOMAIN nodes' : nodes'[j] = nodes[i]
                   /\ \A d \in Cells :
                        (resolution(d) >= root_res
                            /\ get_parent(d, root_res) # promoted)
                            => HTree_contains(root_res, nodes', d) = Query(d) ]_vars

\* C20's case: an insert made a new root node in a tree that had a root node
\* with children.
C20_Witness ==
    /\ op.kind = "insert" /\ op.st = "ok"
    /\ \E i \in DOMAIN nodes :
         /\ nodes[i].children.some
         /\ ~is_parent_of(nodes[i].hex, op.hex)
    /\ \A s \in inserted :
         s # op.hex => get_parent(s, root_res) # get_parent(op.hex, root_res)

====
